---- MODULE Spec2Model ----
(***************************************************************************)
(* A model of staz.h (ANDRVV/staz): the statistic operations, the error    *)
(* slot (errno) they share and the caller's arrays they read and write.    *)
(*                                                                         *)
(* A double is modelled exactly, as a triple <<n, d, r>>:                  *)
(*   d > 0, r = 1   the rational n/d in lowest terms                       *)
(*   d > 0, r > 1   sign(n) * (|n|/d)^(1/r), an irrational root            *)
(*   <<0, 0, 1>>    NaN                                                    *)
(*   <<1, 0, 1>> and <<-1, 0, 1>>   +infinity and -infinity                *)
(* Rounding error of the floating-point operations is not modelled.        *)
(*                                                                         *)
(* A C function is one operator, or a chain of operators when a later part *)
(* of the function uses the result of an earlier part: the later part is   *)
(* then an operator of its own that receives the result as a parameter.    *)
(***************************************************************************)
EXTENDS Integers, Sequences, FiniteSets, TLC

(***************************************************************************)
(* Bounds of the model.                                                    *)
(***************************************************************************)
\* longest sample drawn exhaustively
MaxLen == 3
\* largest quantile division and position the caller passes
MaxDiv == 4
\* largest numerator and denominator of an element of an array passed to a call
MaxMag == 5

(***************************************************************************)
(* staz_error (the values errno takes).                                    *)
(***************************************************************************)
NO_ERROR == 0
MEMORY_ALLOCATION_ERROR == 1
INVALID_PARAMETERS_ERROR == 2
ZERO_DIVISION_ERROR == 3
MATH_DOMAIN_ERROR == 4
NAN_ERROR == 5
RANGEOUT_ERROR == 6
UNKNOWN_ERROR == 7

(***************************************************************************)
(* Double arithmetic.                                                      *)
(***************************************************************************)
Abs(a) == IF a < 0 THEN -a ELSE a

Sgn(a) == IF a < 0 THEN -1 ELSE IF a > 0 THEN 1 ELSE 0

RECURSIVE Gcd(_, _)
Gcd(a, b) == IF b = 0 THEN a ELSE Gcd(b, a % b)

RECURSIVE IPow(_, _)
IPow(a, k) == IF k = 0 THEN 1 ELSE a * IPow(a, k - 1)

\* k^r <= n, for k, n >= 0
RECURSIVE PowLe(_, _, _)
PowLe(k, r, n) ==
    IF r = 0 THEN 1 <= n
    ELSE IF k = 0 THEN TRUE
    ELSE PowLe(k, r - 1, n \div k)

\* the largest k in lo..hi with k^r <= n
RECURSIVE IRootIn(_, _, _, _)
IRootIn(n, r, lo, hi) ==
    IF lo >= hi THEN lo
    ELSE IF PowLe(lo + (hi - lo + 1) \div 2, r, n)
         THEN IRootIn(n, r, lo + (hi - lo + 1) \div 2, hi)
         ELSE IRootIn(n, r, lo, lo + (hi - lo + 1) \div 2 - 1)

\* the largest k with k^r <= n
IRoot(n, r) == IRootIn(n, r, 0, n)

NAN == <<0, 0, 1>>

INF == <<1, 0, 1>>

Num(n) == <<n, 1, 1>>

\* n/d with the common divisor g taken out
Lowest(n, d, g) ==
    IF d < 0 THEN <<(-n) \div g, (-d) \div g, 1>> ELSE <<n \div g, d \div g, 1>>

\* the rational n/d, d # 0, in lowest terms
Rat(n, d) == Lowest(n, d, Gcd(Abs(n), Abs(d)))

\* s * (nn/dd)^(1/r) given the integer roots rn, rd of nn, dd
RootExact(s, nn, dd, r, rn, rd) ==
    IF IPow(rn, r) = nn /\ IPow(rd, r) = dd THEN <<s * rn, rd, 1>> ELSE <<s * nn, dd, r>>

\* s * (nn/dd)^(1/r) for nn/dd in lowest terms
RootLowest(s, nn, dd, r) ==
    IF r = 1 THEN <<s * nn, dd, 1>>
    ELSE RootExact(s, nn, dd, r, IRoot(nn, r), IRoot(dd, r))

\* s * (n/d)^(1/r) for n >= 0, d > 0; a rational when the root is exact
Root(s, n, d, r) ==
    IF n = 0 \/ s = 0 THEN <<0, 1, 1>>
    ELSE RootLowest(s, n \div Gcd(n, d), d \div Gcd(n, d), r)

isnan(v) == v[1] = 0 /\ v[2] = 0

IsInf(v) == v[1] # 0 /\ v[2] = 0

IsFinite(v) == v[2] # 0

\* a < b; false when either is NaN
Lt(a, b) ==
    /\ ~isnan(a) /\ ~isnan(b)
    /\ IF IsInf(a) \/ IsInf(b)
       THEN (IsInf(a) /\ a[1] < 0 /\ a # b) \/ (IsInf(b) /\ b[1] > 0 /\ a # b)
       ELSE a[1] * b[2] < b[1] * a[2]

IsZero(v) == IsFinite(v) /\ v[1] = 0

Neg(a) == <<-a[1], a[2], a[3]>>

fabs(a) == <<Abs(a[1]), a[2], a[3]>>

\* a + b of two rationals over the common denominator l
AddOver(a, b, l) == Rat(a[1] * (l \div a[2]) + b[1] * (l \div b[2]), l)

Add(a, b) ==
    IF isnan(a) \/ isnan(b) THEN NAN
    ELSE IF IsInf(a) /\ IsInf(b) THEN (IF a = b THEN a ELSE NAN)
    ELSE IF IsInf(a) THEN a
    ELSE IF IsInf(b) THEN b
    ELSE AddOver(a, b, (a[2] \div Gcd(a[2], b[2])) * b[2])

Sub(a, b) == Add(a, Neg(b))

\* the common root index of a product or quotient
RootOf(a, b) == IF a[3] > b[3] THEN a[3] ELSE b[3]

\* s * ((an/ad) * (bn/bd))^(1/r), the common divisors g1, g2 taken out first
MulLowest(s, an, ad, bn, bd, r, g1, g2) ==
    Root(s, (an \div g1) * (bn \div g2), (ad \div g2) * (bd \div g1), r)

MulRoot(s, an, ad, bn, bd, r) == MulLowest(s, an, ad, bn, bd, r, Gcd(an, bd), Gcd(bn, ad))

Mul(a, b) ==
    IF isnan(a) \/ isnan(b) THEN NAN
    ELSE IF IsInf(a) \/ IsInf(b)
         THEN (IF a[1] = 0 \/ b[1] = 0 THEN NAN ELSE <<Sgn(a[1]) * Sgn(b[1]), 0, 1>>)
    ELSE IF a[1] = 0 \/ b[1] = 0 THEN <<0, 1, 1>>
    ELSE MulRoot(Sgn(a[1]) * Sgn(b[1]),
                 IPow(Abs(a[1]), RootOf(a, b) \div a[3]), IPow(a[2], RootOf(a, b) \div a[3]),
                 IPow(Abs(b[1]), RootOf(a, b) \div b[3]), IPow(b[2], RootOf(a, b) \div b[3]),
                 RootOf(a, b))

Div(a, b) ==
    IF isnan(a) \/ isnan(b) THEN NAN
    ELSE IF IsInf(b) THEN (IF IsInf(a) THEN NAN ELSE <<0, 1, 1>>)
    ELSE IF b[1] = 0 THEN (IF a[1] = 0 THEN NAN ELSE <<Sgn(a[1]), 0, 1>>)
    ELSE Mul(a, <<Sgn(b[1]) * b[2], Abs(b[1]), b[3]>>)

\* sqrt(v) of <math.h>
sqrt(v) ==
    IF isnan(v) \/ Lt(v, Num(0)) THEN NAN
    ELSE IF IsInf(v) THEN v
    ELSE Root(1, v[1], v[2], 2)

\* (int)v and (size_t)v of a finite v: truncation toward zero
Trunc(v) == Sgn(v[1]) * (Abs(v[1]) \div v[2])

(***************************************************************************)
(* The context of one public call: errno, and the bookkeeping of the       *)
(* scratch copies.  fail is the set of malloc calls (counted from 1 within *)
(* the public call) that return NULL.                                      *)
(***************************************************************************)
Enter(e, fail) ==
    [err |-> e, k |-> 0, fail |-> fail, live |-> {}, bad |-> FALSE,
     denied |-> 0, subnan |-> FALSE]

SetErr(c, e) == [c EXCEPT !.err = e]

\* a composed operation received v from a sub-operation
Note(c, v) == [c EXCEPT !.subnan = @ \/ isnan(v)]

\* what a call hands back: its return value, the context and the caller's array
R(v, c, nums) == [ret |-> v, c |-> c, nums |-> nums]

(***************************************************************************)
(* Private methods.                                                        *)
(***************************************************************************)
\* malloc and memcpy of copy_array, for the malloc call numbered id
Malloc(nums, c, id) ==
    IF id \in c.fail
    THEN [ok |-> FALSE, id |-> id, buf |-> <<>>,
          c |-> [c EXCEPT !.err = MEMORY_ALLOCATION_ERROR, !.k = id, !.denied = @ + 1]]
    ELSE [ok |-> TRUE, id |-> id, buf |-> nums,
          c |-> [c EXCEPT !.err = 0, !.k = id, !.live = @ \cup {id}]]

copy_array(nums, c) ==
    IF Len(nums) = 0
    THEN [ok |-> FALSE, id |-> 0, buf |-> <<>>, c |-> SetErr(c, INVALID_PARAMETERS_ERROR)]
    ELSE Malloc(nums, c, c.k + 1)

\* free(sorted)
free(id, c) == [c EXCEPT !.live = @ \ {id}, !.bad = @ \/ id \notin c.live]

\* a read of sorted[...], the buffer numbered id
Deref(id, c) == [c EXCEPT !.bad = @ \/ id \notin c.live]

RECURSIVE _staz_sum_recursive(_, _, _)
_staz_sum_recursive(nums, start, end) ==
    IF start = end THEN nums[start + 1]
    ELSE IF end - start = 1 THEN Add(nums[start + 1], nums[end + 1])
    ELSE Add(_staz_sum_recursive(nums, start, start + (end - start) \div 2),
             _staz_sum_recursive(nums, start + (end - start) \div 2 + 1, end))

\* one round of the Kahan loop of _sum_recp, t being sum + y
RECURSIVE SumRecpLoop(_, _, _, _, _)
SumRecpStep(nums, i, sum, yy, t, c) == SumRecpLoop(nums, i + 1, t, Sub(Sub(t, sum), yy), c)

\* the loop of _sum_recp passing over a zero element instead of failing on it
RECURSIVE SumRecpSkipsZero(_, _, _, _, _)
SumRecpSkipsZero(nums, i, sum, comp, c) ==
    IF i >= Len(nums) THEN R(sum, c, nums)
    ELSE IF IsZero(nums[i + 1]) THEN SumRecpSkipsZero(nums, i + 1, sum, comp, c)
    ELSE SumRecpStep(nums, i, sum, Sub(Div(Num(1), nums[i + 1]), comp),
                     Add(sum, Sub(Div(Num(1), nums[i + 1]), comp)), c)

\* the loop of _sum_recp from index i (0-based) with the running sum and compensation
SumRecpLoop(nums, i, sum, comp, c) ==
    IF i >= Len(nums) THEN R(sum, c, nums)
    ELSE IF IsZero(nums[i + 1]) THEN R(NAN, SetErr(c, ZERO_DIVISION_ERROR), nums)
    ELSE SumRecpStep(nums, i, sum, Sub(Div(Num(1), nums[i + 1]), comp),
                     Add(sum, Sub(Div(Num(1), nums[i + 1]), comp)), c)

_sum_recp(nums, c) ==
    IF Len(nums) = 0 THEN R(NAN, SetErr(c, INVALID_PARAMETERS_ERROR), nums)
    ELSE SumRecpLoop(nums, 0, Num(0), Num(0), SetErr(c, 0))

\* comp(a, b) of qsort
comp(a, b) == IF Lt(a, b) THEN -1 ELSE IF Lt(b, a) THEN 1 ELSE 0

RECURSIVE Insert(_, _)
Insert(v, s) ==
    IF s = <<>> THEN <<v>>
    ELSE IF comp(v, Head(s)) <= 0 THEN <<v>> \o s
    ELSE <<Head(s)>> \o Insert(v, Tail(s))

\* qsort(sorted, len, sizeof(double), comp): the array in ascending order
RECURSIVE qsort(_)
qsort(s) == IF s = <<>> THEN <<>> ELSE Insert(Head(s), qsort(Tail(s)))

(***************************************************************************)
(* Shared methods.                                                         *)
(***************************************************************************)
\* staz_sum without the errno = 0 of its success path
SumKeepsErrno(nums, c) ==
    IF Len(nums) = 0 THEN R(NAN, SetErr(c, INVALID_PARAMETERS_ERROR), nums)
    ELSE R(_staz_sum_recursive(nums, 0, Len(nums) - 1), c, nums)

staz_sum(nums, c) ==
    IF Len(nums) = 0 THEN R(NAN, SetErr(c, INVALID_PARAMETERS_ERROR), nums)
    ELSE R(_staz_sum_recursive(nums, 0, Len(nums) - 1), SetErr(c, 0), nums)

RECURSIVE QuadLoop(_, _, _)
QuadLoop(nums, i, vsum) ==
    IF i >= Len(nums) THEN vsum
    ELSE QuadLoop(nums, i + 1, Add(vsum, Mul(nums[i + 1], nums[i + 1])))

staz_quadratic_sum(nums, c) ==
    IF Len(nums) = 0 THEN R(NAN, SetErr(c, INVALID_PARAMETERS_ERROR), nums)
    ELSE R(QuadLoop(nums, 0, Num(0)), SetErr(c, 0), nums)

\* the loop of staz_prod after product *= nums[i]
RECURSIVE ProdLoop(_, _, _)
ProdBreak(nums, i, product) ==
    IF IsZero(product) THEN product ELSE ProdLoop(nums, i + 1, product)

ProdLoop(nums, i, product) ==
    IF i >= Len(nums) THEN product
    ELSE ProdBreak(nums, i, Mul(product, nums[i + 1]))

staz_prod(nums, c) ==
    IF Len(nums) = 0 THEN R(NAN, SetErr(c, INVALID_PARAMETERS_ERROR), nums)
    ELSE R(ProdLoop(nums, 0, Num(1)), SetErr(c, 0), nums)

RECURSIVE MinLoop(_, _, _)
MinLoop(nums, i, min) ==
    IF i >= Len(nums) THEN min
    ELSE MinLoop(nums, i + 1, IF Lt(nums[i + 1], min) THEN nums[i + 1] ELSE min)

staz_min_value(nums, c) ==
    IF Len(nums) = 0 THEN R(NAN, SetErr(c, INVALID_PARAMETERS_ERROR), nums)
    ELSE R(MinLoop(nums, 1, nums[1]), SetErr(c, 0), nums)

RECURSIVE MaxLoop(_, _, _)
MaxLoop(nums, i, max) ==
    IF i >= Len(nums) THEN max
    ELSE MaxLoop(nums, i + 1, IF Lt(max, nums[i + 1]) THEN nums[i + 1] ELSE max)

staz_max_value(nums, c) ==
    IF Len(nums) = 0 THEN R(NAN, SetErr(c, INVALID_PARAMETERS_ERROR), nums)
    ELSE R(MaxLoop(nums, 1, nums[1]), SetErr(c, 0), nums)

(***************************************************************************)
(* Public methods.  The enumerations are modelled by their names; OTHER is *)
(* a value outside the enumeration, which a C caller can pass.             *)
(***************************************************************************)
MeanTypes ==
    {"ARITHMETICAL", "GEOMETRICAL", "HARMONICAL", "QUADRATICAL", "EXTREMES",
     "TRIMEAN", "MIDHINGE", "OTHER"}

RangeTypes == {"R_STANDARD", "R_INTERQUARTILE", "R_PERCENTILE", "OTHER"}

DeviationTypes == {"D_STANDARD", "D_AVERAGE", "D_RELATIVE", "D_MAD_AVG", "D_MAD_MED", "OTHER"}

\* staz_median returning sorted[len / 2] alone for an even length
MedianUpperMiddle(nums, sorted, len, id, c) ==
    R(IF len = 1 THEN sorted[1] ELSE sorted[len \div 2 + 1], free(id, Deref(id, c)), nums)

\* staz_median from the sorted copy on: med read from sorted, then free(sorted)
MedianOf(nums, sorted, len, id, c) ==
    R(IF len = 1 THEN sorted[1]
      ELSE IF len % 2 # 0 THEN sorted[len \div 2 + 1]
      ELSE Div(Add(sorted[len \div 2], sorted[len \div 2 + 1]), Num(2)),
      free(id, Deref(id, c)), nums)

\* staz_median sorting the caller's array instead of the copy
MedianInPlace(nums, cp) ==
    IF ~cp.ok THEN R(NAN, cp.c, nums)
    ELSE MedianOf(qsort(nums), qsort(cp.buf), Len(nums), cp.id, cp.c)

\* staz_median once copy_array returned cp
MedianCopy(nums, cp) ==
    IF ~cp.ok THEN R(NAN, cp.c, nums)
    ELSE MedianOf(nums, qsort(cp.buf), Len(nums), cp.id, cp.c)

staz_median(nums, c0) ==
    IF Len(nums) = 0 THEN R(NAN, SetErr(c0, INVALID_PARAMETERS_ERROR), nums)
    ELSE MedianCopy(nums, copy_array(nums, SetErr(c0, 0)))

\* posx > (size_t)mtype - 1.  For mtype <= 0 the unsigned subtraction wraps to
\* 2^64 - 1 + mtype, which no position the caller of this model passes exceeds.
OverRange(posx, mtype) == IF mtype >= 1 THEN posx > mtype - 1 ELSE FALSE

\* (size_t)index.  The conversion is undefined when the truncated value is not
\* representable (index infinite, or <= -1): ub is then the value the build
\* produces, with len standing for every value >= len.
ToSize(index, ub) ==
    IF IsFinite(index) /\ Lt(Num(-1), index) THEN Trunc(index) ELSE ub

\* const int ret = v; return ret;
ViaInt(v) == Num(Trunc(v))

\* staz_quantile returning from the upper clamp without free(sorted)
QuantileKeepsCopy(nums, sorted, len, index, lower, id, c) ==
    IF lower >= len THEN R(ViaInt(sorted[len]), Deref(id, c), nums)
    ELSE IF lower <= 0 THEN R(ViaInt(sorted[1]), free(id, Deref(id, c)), nums)
    ELSE R(Add(sorted[lower],
               Mul(Sub(index, Num(lower)), Sub(sorted[lower + 1], sorted[lower]))),
           free(id, Deref(id, c)), nums)

\* staz_quantile from lower on: the two clamps and the interpolation, each
\* reading sorted and then calling free(sorted) before it returns
QuantileAt(nums, sorted, len, index, lower, id, c) ==
    IF lower >= len THEN R(ViaInt(sorted[len]), free(id, Deref(id, c)), nums)
    ELSE IF lower <= 0 THEN R(ViaInt(sorted[1]), free(id, Deref(id, c)), nums)
    ELSE R(Add(sorted[lower],
               Mul(Sub(index, Num(lower)), Sub(sorted[lower + 1], sorted[lower]))),
           free(id, Deref(id, c)), nums)

\* staz_quantile from index on
QuantileIndex(nums, sorted, len, index, ub, id, c) ==
    QuantileAt(nums, sorted, len, index, ToSize(index, ub), id, c)

\* staz_quantile with index = posx * len / mtype
QuantileIndexLen(mtype, posx, nums, cp, ub) ==
    IF ~cp.ok THEN R(NAN, cp.c, nums)
    ELSE QuantileIndex(nums, qsort(cp.buf), Len(nums),
                       Div(Num(posx * Len(nums)), Num(mtype)), ub, cp.id, cp.c)

\* staz_quantile once copy_array returned cp
QuantileCopy(mtype, posx, nums, cp, ub) ==
    IF ~cp.ok THEN R(NAN, cp.c, nums)
    ELSE QuantileIndex(nums, qsort(cp.buf), Len(nums),
                       Div(Num(posx * (Len(nums) + 1)), Num(mtype)), ub, cp.id, cp.c)

staz_quantile(mtype, posx, nums, c0, ub) ==
    IF Len(nums) = 0 \/ posx < 1 THEN R(NAN, SetErr(c0, INVALID_PARAMETERS_ERROR), nums)
    ELSE IF OverRange(posx, mtype) THEN R(NAN, SetErr(c0, RANGEOUT_ERROR), nums)
    ELSE QuantileCopy(mtype, posx, nums, copy_array(nums, SetErr(c0, 0)), ub)

\* successive calls staz_quantile(mtype, ps[1], nums, len), staz_quantile(mtype,
\* ps[2], nums, len), ... of a composed operation: their results in order
RECURSIVE Quantiles(_, _, _, _)
QuantilesCons(v, rest) == [rets |-> <<v>> \o rest.rets, c |-> rest.c, nums |-> rest.nums]

QuantilesNext(mtype, ps, q) ==
    QuantilesCons(q.ret, Quantiles(mtype, Tail(ps), q.nums, Note(q.c, q.ret)))

Quantiles(mtype, ps, nums, c) ==
    IF ps = <<>> THEN [rets |-> <<>>, c |-> c, nums |-> nums]
    ELSE QuantilesNext(mtype, ps, staz_quantile(mtype, Head(ps), nums, c, 0))

\* staz_sqrti(i, x) for x > 0
staz_sqrti(i, v) == Root(1, v[1], v[2], i)

MeanArithmetical(nums, s) == R(Div(s.ret, Num(Len(nums))), s.c, nums)

MeanGeometrical(nums, p) ==
    IF IsZero(p.ret) THEN R(Num(0), p.c, nums)
    ELSE IF Lt(p.ret, Num(0)) THEN R(NAN, SetErr(p.c, MATH_DOMAIN_ERROR), nums)
    ELSE R(staz_sqrti(Len(nums), p.ret), p.c, nums)

MeanHarmonical(nums, s) ==
    IF isnan(s.ret) THEN R(NAN, Note(s.c, s.ret), nums)
    ELSE R(Div(Num(Len(nums)), s.ret), s.c, nums)

MeanQuadratical(nums, s) == R(sqrt(Div(s.ret, Num(Len(nums)))), s.c, nums)

MeanExtremesOf(mn, mx) == R(Div(Add(mn.ret, mx.ret), Num(2)), mx.c, mx.nums)

MeanExtremes(mn) == MeanExtremesOf(mn, staz_max_value(mn.nums, mn.c))

MeanTrimean(q) ==
    R(Div(Add(Add(q.rets[1], Mul(Num(2), q.rets[2])), q.rets[3]), Num(4)), q.c, q.nums)

MeanMidhinge(q) == R(Div(Add(q.rets[1], q.rets[2]), Num(2)), q.c, q.nums)

staz_mean(mtype, nums, c0) ==
    IF Len(nums) = 0 THEN R(NAN, SetErr(c0, INVALID_PARAMETERS_ERROR), nums)
    ELSE CASE mtype = "ARITHMETICAL" -> MeanArithmetical(nums, staz_sum(nums, SetErr(c0, 0)))
           [] mtype = "GEOMETRICAL" -> MeanGeometrical(nums, staz_prod(nums, SetErr(c0, 0)))
           [] mtype = "HARMONICAL" -> MeanHarmonical(nums, _sum_recp(nums, SetErr(c0, 0)))
           [] mtype = "QUADRATICAL" ->
                MeanQuadratical(nums, staz_quadratic_sum(nums, SetErr(c0, 0)))
           [] mtype = "EXTREMES" ->
                IF Len(nums) < 2 THEN R(NAN, SetErr(c0, INVALID_PARAMETERS_ERROR), nums)
                ELSE MeanExtremes(staz_min_value(nums, SetErr(c0, 0)))
           [] mtype = "TRIMEAN" -> MeanTrimean(Quantiles(4, <<1, 2, 3>>, nums, SetErr(c0, 0)))
           [] mtype = "MIDHINGE" -> MeanMidhinge(Quantiles(4, <<1, 3>>, nums, SetErr(c0, 0)))
           [] OTHER -> R(NAN, SetErr(c0, INVALID_PARAMETERS_ERROR), nums)

\* diff * diff
Square(diff) == Mul(diff, diff)

\* nums[i] = diff * diff for every i
SquaredDiffs(nums, mean_value) == [i \in 1..Len(nums) |-> Square(Sub(nums[i], mean_value))]

\* staz_variance once the mean m is computed
VarianceOf(m) ==
    IF isnan(m.ret) THEN R(NAN, SetErr(Note(m.c, m.ret), NAN_ERROR), m.nums)
    ELSE staz_mean("ARITHMETICAL", SquaredDiffs(m.nums, m.ret), m.c)

staz_variance(nums, c0) ==
    IF Len(nums) = 0 THEN R(NAN, SetErr(c0, INVALID_PARAMETERS_ERROR), nums)
    ELSE VarianceOf(staz_mean("ARITHMETICAL", nums, SetErr(c0, 0)))

\* nums[i] = fabs(nums[i] - v) for every i
AbsDiffs(nums, v) == [i \in 1..Len(nums) |-> fabs(Sub(nums[i], v))]

DeviationStandard(v) ==
    IF isnan(v.ret) THEN R(NAN, SetErr(Note(v.c, v.ret), NAN_ERROR), v.nums)
    ELSE R(sqrt(v.ret), v.c, v.nums)

DeviationRelativeOf(m, d) == R(Div(d.ret, m.ret), Note(d.c, d.ret), d.nums)

\* D_MAD_AVG and D_MAD_MED once the centre m (the mean, the median) is computed
DeviationMad(m) == staz_mean("ARITHMETICAL", AbsDiffs(m.nums, m.ret), Note(m.c, m.ret))

RECURSIVE staz_deviation(_, _, _)
DeviationRelative(m) ==
    IF isnan(m.ret) THEN R(NAN, SetErr(Note(m.c, m.ret), NAN_ERROR), m.nums)
    ELSE IF IsZero(m.ret) THEN R(NAN, SetErr(m.c, ZERO_DIVISION_ERROR), m.nums)
    ELSE DeviationRelativeOf(m, staz_deviation("D_STANDARD", m.nums, m.c))

staz_deviation(dtype, nums, c0) ==
    IF Len(nums) = 0 THEN R(NAN, SetErr(c0, INVALID_PARAMETERS_ERROR), nums)
    ELSE CASE dtype = "D_STANDARD" -> DeviationStandard(staz_variance(nums, SetErr(c0, 0)))
           [] dtype = "D_RELATIVE" ->
                DeviationRelative(staz_mean("ARITHMETICAL", nums, SetErr(c0, 0)))
           [] dtype = "D_MAD_AVG" ->
                DeviationMad(staz_mean("ARITHMETICAL", nums, SetErr(c0, 0)))
           [] dtype = "D_MAD_MED" -> DeviationMad(staz_median(nums, SetErr(c0, 0)))
           [] OTHER -> R(NAN, SetErr(c0, INVALID_PARAMETERS_ERROR), nums)

\* the inner loop of staz_mode: how many elements equal v
CountEq(nums, v) == Cardinality({j \in 1..Len(nums) : nums[j] = v})

RECURSIVE ModeLoop(_, _, _, _)
ModeLoop(nums, i, maxv, maxc) ==
    IF i >= Len(nums) THEN maxv
    ELSE IF CountEq(nums, nums[i + 1]) > maxc
         THEN ModeLoop(nums, i + 1, nums[i + 1], CountEq(nums, nums[i + 1]))
         ELSE ModeLoop(nums, i + 1, maxv, maxc)

staz_mode(nums, c) ==
    IF Len(nums) = 0 THEN R(NAN, SetErr(c, INVALID_PARAMETERS_ERROR), nums)
    ELSE R(ModeLoop(nums, 0, Num(0), 0), SetErr(c, 0), nums)

RangeStandardOf(mx, mn) ==
    IF isnan(mx.ret) \/ isnan(mn.ret)
    THEN R(NAN, SetErr(Note(mn.c, mn.ret), NAN_ERROR), mn.nums)
    ELSE R(Sub(mx.ret, mn.ret), Note(mn.c, mn.ret), mn.nums)

RangeStandard(mx) == RangeStandardOf(mx, staz_min_value(mx.nums, Note(mx.c, mx.ret)))

\* R_INTERQUARTILE and R_PERCENTILE once the two quantiles q are computed
RangeQuantiles(q) ==
    IF isnan(q.rets[1]) \/ isnan(q.rets[2]) THEN R(NAN, SetErr(q.c, NAN_ERROR), q.nums)
    ELSE R(Sub(q.rets[2], q.rets[1]), q.c, q.nums)

staz_range(rtype, nums, c0) ==
    IF Len(nums) = 0 THEN R(NAN, SetErr(c0, INVALID_PARAMETERS_ERROR), nums)
    ELSE CASE rtype = "R_STANDARD" -> RangeStandard(staz_max_value(nums, SetErr(c0, 0)))
           [] rtype = "R_INTERQUARTILE" ->
                RangeQuantiles(Quantiles(4, <<1, 3>>, nums, SetErr(c0, 0)))
           [] rtype = "R_PERCENTILE" ->
                RangeQuantiles(Quantiles(100, <<10, 90>>, nums, SetErr(c0, 0)))
           [] OTHER -> R(NAN, SetErr(c0, INVALID_PARAMETERS_ERROR), nums)

\* what a call on two arrays hands back
R2(v, c, xx, yy) == [ret |-> v, c |-> c, x |-> xx, y |-> yy]

\* nums[i] = (x[i] - mean_x) * (y[i] - mean_y), the local array of staz_covariance
Products(xx, yy, mean_x, mean_y) ==
    [i \in 1..Len(xx) |-> Mul(Sub(xx[i], mean_x), Sub(yy[i], mean_y))]

CovarianceOf(xx, yy, m) == R2(m.ret, m.c, xx, yy)

CovarianceMeans(xx, yy, mx, my) ==
    IF isnan(mx.ret) \/ isnan(my.ret)
    THEN R2(NAN, SetErr(Note(my.c, my.ret), NAN_ERROR), xx, yy)
    ELSE CovarianceOf(xx, yy, staz_mean("ARITHMETICAL", Products(xx, yy, mx.ret, my.ret),
                                        Note(my.c, my.ret)))

CovarianceMeanX(xx, yy, mx) ==
    CovarianceMeans(xx, yy, mx, staz_mean("ARITHMETICAL", yy, Note(mx.c, mx.ret)))

staz_covariance(xx, yy, c0) ==
    IF Len(xx) = 0 THEN R2(NAN, SetErr(c0, INVALID_PARAMETERS_ERROR), xx, yy)
    ELSE CovarianceMeanX(xx, yy, staz_mean("ARITHMETICAL", xx, SetErr(c0, 0)))

\* staz_correlation from the NaN check on
CorrelationOf(cov, dev_x, dev_y, c, xx, yy) ==
    IF isnan(cov) \/ isnan(dev_x) \/ isnan(dev_y) THEN R2(NAN, SetErr(c, NAN_ERROR), xx, yy)
    ELSE IF IsZero(dev_x) \/ IsZero(dev_y) THEN R2(NAN, SetErr(c, ZERO_DIVISION_ERROR), xx, yy)
    ELSE R2(Div(cov, Mul(dev_x, dev_y)), c, xx, yy)

CorrelationDevY(same, cov, dev_x, dev_y) ==
    CorrelationOf(cov.ret, dev_x.ret, dev_y.ret, Note(dev_y.c, dev_y.ret),
                  IF same THEN dev_y.nums ELSE dev_x.nums, dev_y.nums)

\* dev_y is computed on the array dev_x left: y itself, or x when y is x
CorrelationDevX(yy, same, cov, dev_x) ==
    CorrelationDevY(same, cov, dev_x,
                    staz_deviation("D_STANDARD", IF same THEN dev_x.nums ELSE yy,
                                   Note(dev_x.c, dev_x.ret)))

CorrelationCov(xx, yy, same, cov) ==
    CorrelationDevX(yy, same, cov, staz_deviation("D_STANDARD", xx, Note(cov.c, cov.ret)))

\* same is TRUE when x and y are the same array (the same pointer)
staz_correlation(xx, yy, same, c0) ==
    IF Len(xx) = 0 THEN R2(NAN, SetErr(c0, INVALID_PARAMETERS_ERROR), xx, yy)
    ELSE CorrelationCov(xx, yy, same, staz_covariance(xx, yy, SetErr(c0, 0)))

\* the staz_boxplot_info: Q3, median, Q1, upper and lower whisker, max, min
BoxplotInfo(q1, q3, med, iqr, upper_outlier, lower_outlier) ==
    <<q3, med, q1, Add(q3, Mul(Rat(3, 2), iqr)), Sub(q1, Mul(Rat(3, 2), iqr)),
      upper_outlier, lower_outlier>>

BoxplotOf(q1, q3, med, mx, mn) ==
    R(BoxplotInfo(q1, q3, med, Sub(q3, q1), mx.ret, mn.ret), mn.c, mn.nums)

BoxplotMax(q1, q3, med, mx) == BoxplotOf(q1, q3, med, mx, staz_min_value(mx.nums, mx.c))

BoxplotMedian(q1, q3, med) ==
    BoxplotMax(q1, q3, med.ret, staz_max_value(med.nums, Note(med.c, med.ret)))

BoxplotQuartiles(q) == BoxplotMedian(q.rets[1], q.rets[2], staz_median(q.nums, q.c))

staz_boxplot(nums, c0) ==
    IF Len(nums) = 0
    THEN R(<<NAN, NAN, NAN, NAN, NAN, NAN, NAN>>, SetErr(c0, INVALID_PARAMETERS_ERROR), nums)
    ELSE BoxplotQuartiles(Quantiles(4, <<1, 3>>, nums, SetErr(c0, 0)))

\* the loop of staz_linear_regression: <<sum_xy, sum_x_sq>>
RECURSIVE RegressionLoop(_, _, _, _, _)
RegressionLoop(xx, yy, i, sum_xy, sum_x_sq) ==
    IF i >= Len(xx) THEN <<sum_xy, sum_x_sq>>
    ELSE RegressionLoop(xx, yy, i + 1, Add(sum_xy, Mul(xx[i + 1], yy[i + 1])),
                        Add(sum_x_sq, Mul(xx[i + 1], xx[i + 1])))

\* the staz_line_equation with q = sum_y - m * sum_x, not divided by len
RegressionLineOfSums(len, sum_x, sum_y, m) == <<m, Sub(sum_y, Mul(m, sum_x))>>

\* q = (sum_y - m * sum_x) / len; the staz_line_equation is <<m, q>>
RegressionLine(len, sum_x, sum_y, m) == <<m, Div(Sub(sum_y, Mul(m, sum_x)), len)>>

RegressionSlope(xx, yy, len, sum_x, sum_y, sum_xy, d_of_m, c) ==
    IF IsZero(d_of_m) THEN R2(<<NAN, NAN>>, SetErr(c, ZERO_DIVISION_ERROR), xx, yy)
    ELSE R2(RegressionLine(len, sum_x, sum_y,
                           Div(Sub(Mul(len, sum_xy), Mul(sum_x, sum_y)), d_of_m)),
            c, xx, yy)

RegressionSums(xx, yy, len, sum_x, sum_y, sums) ==
    RegressionSlope(xx, yy, len, sum_x.ret, sum_y.ret, sums[1],
                    Sub(Mul(len, sums[2]), Mul(sum_x.ret, sum_x.ret)), sum_y.c)

RegressionSumX(xx, yy, sum_x) ==
    RegressionSums(xx, yy, Num(Len(xx)), sum_x, staz_sum(yy, sum_x.c),
                   RegressionLoop(xx, yy, 0, Num(0), Num(0)))

staz_linear_regression(xx, yy, c0) ==
    IF Len(xx) = 0 THEN R2(<<NAN, NAN>>, SetErr(c0, INVALID_PARAMETERS_ERROR), xx, yy)
    ELSE RegressionSumX(xx, yy, staz_sum(xx, SetErr(c0, 0)))

(***************************************************************************)
(* Error handling.                                                         *)
(***************************************************************************)
staz_geterrno(e) == IF e >= 0 /\ e <= 6 THEN e ELSE UNKNOWN_ERROR

staz_strerrno(e) ==
    CASE e = 0 -> "No error occurred"
      [] e = MEMORY_ALLOCATION_ERROR -> "Dynamic memory allocation fails"
      [] e = INVALID_PARAMETERS_ERROR -> "Arguments to function are invalid"
      [] e = ZERO_DIVISION_ERROR -> "Division by zero"
      [] e = MATH_DOMAIN_ERROR -> "Error of domain (e.g., negative root)"
      [] e = NAN_ERROR -> "Calculation with NAN numbers"
      [] e = RANGEOUT_ERROR -> "Number as argument to function out of range"
      [] OTHER -> "An unknown error occurred"

(***************************************************************************)
(* The caller.  x is the caller's sample and y the second sample it passes *)
(* to the operations on two arrays (the empty sequence stands for a NULL   *)
(* pointer or len = 0); errno is the error slot.  After a call returns, op *)
(* names the call, ret is the sequence of doubles it returned (one for a   *)
(* scalar, the fields in order for a struct), pre holds the arrays and     *)
(* errno as they were when the call was entered and ctx is its final       *)
(* context.  The caller then takes the result (Resume) and may call again  *)
(* on the arrays as the call left them, or on a fresh sample (Load).       *)
(***************************************************************************)
VARIABLES x, y, errno, ret, op, pre, ctx

vars == <<x, y, errno, ret, op, pre, ctx>>

\* the values the exhaustively drawn samples are made of
Vals == {Num(-1), Num(0), Rat(1, 2), Num(2)}

RECURSIVE SeqsOf(_, _)
SeqsOf(S, n) ==
    IF n = 0 THEN {<<>>}
    ELSE {<<v>> \o s : v \in S, s \in SeqsOf(S, n - 1)}

Values(s) == [i \in 1..Len(s) |-> Num(s[i])]

\* the samples of the documented examples
Examples ==
    {Values(<<1, 2, 3, 4>>), Values(<<1, 2, 0, 4>>), Values(<<5>>), Values(<<3, 1, 2>>),
     Values(<<1, 2, 3>>)}

Samples == UNION {SeqsOf(Vals, n) : n \in 0..MaxLen} \cup Examples

\* the second sample: the points a * x[i] + b of a line <<a, b>> over x
Lines == {<<2, 0>>, <<-1, 1>>, <<0, 1>>}

OnLine(s, l) == [i \in 1..Len(s) |-> Add(Mul(Num(l[1]), s[i]), Num(l[2]))]

\* the caller passes samples of finite values, of bounded size
IsFiniteSample(s) ==
    \A i \in 1..Len(s) :
        IsFinite(s[i]) /\ s[i][3] = 1 /\ Abs(s[i][1]) <= MaxMag /\ s[i][2] <= MaxMag

NoCall == [name |-> "none", kind |-> "", d |-> 0, p |-> 0]

Idle == op = NoCall

Init ==
    /\ x \in Samples
    /\ y = <<>>
    /\ errno = NO_ERROR
    /\ ret = <<>>
    /\ op = NoCall
    /\ pre = [x |-> x, y |-> <<>>, errno |-> NO_ERROR]
    /\ ctx = Enter(NO_ERROR, {})

CanCall == Idle /\ IsFiniteSample(x)

\* the state after the call n on the arrays x and yin returned rets,
\* leaving the arrays as xx and yy
Return(n, kind, d, p, yin, rets, c, xx, yy) ==
    /\ x' = xx
    /\ y' = yy
    /\ errno' = c.err
    /\ ret' = rets
    /\ op' = [name |-> n, kind |-> kind, d |-> d, p |-> p]
    /\ pre' = [x |-> x, y |-> yin, errno |-> errno]
    /\ ctx' = c

\* a call on x alone
Return1(n, kind, d, p, r) == Return(n, kind, d, p, <<>>, <<r.ret>>, r.c, r.nums, <<>>)

\* the sets of malloc calls that can fail in a call that makes n of them
Fails(n) == SUBSET (1..n)

\* the caller fills x with a fresh sample
Load ==
    /\ Idle
    /\ x' \in Samples
    /\ pre' = [x |-> x', y |-> <<>>, errno |-> errno]
    /\ UNCHANGED <<y, errno, ret, op, ctx>>

\* the caller takes the result of the call
Resume ==
    /\ ~Idle
    /\ y' = <<>>
    /\ ret' = <<>>
    /\ op' = NoCall
    /\ pre' = [x |-> x, y |-> <<>>, errno |-> errno]
    /\ ctx' = Enter(errno, {})
    /\ UNCHANGED <<x, errno>>

Sum == CanCall /\ Return1("sum", "", 0, 0, staz_sum(x, Enter(errno, {})))

QuadraticSum ==
    CanCall /\ Return1("quadratic_sum", "", 0, 0, staz_quadratic_sum(x, Enter(errno, {})))

Prod == CanCall /\ Return1("prod", "", 0, 0, staz_prod(x, Enter(errno, {})))

MinValue == CanCall /\ Return1("min_value", "", 0, 0, staz_min_value(x, Enter(errno, {})))

MaxValue == CanCall /\ Return1("max_value", "", 0, 0, staz_max_value(x, Enter(errno, {})))

Median ==
    /\ CanCall
    /\ \E f \in Fails(1) : Return1("median", "", 0, 0, staz_median(x, Enter(errno, f)))

\* the outcomes of the undefined conversion in staz_quantile that differ:
\* 0, a value inside the array, a value >= len
Undefined(d) == IF d = 0 THEN {0, 1, Len(x)} ELSE {0}

Quantile ==
    /\ CanCall
    /\ \E d \in 0..MaxDiv, p \in 0..MaxDiv, f \in Fails(1) :
         \E ub \in Undefined(d) :
            Return1("quantile", "", d, p, staz_quantile(d, p, x, Enter(errno, f), ub))

Mean ==
    /\ CanCall
    /\ \E k \in MeanTypes :
         \E f \in Fails(CASE k = "TRIMEAN" -> 3 [] k = "MIDHINGE" -> 2 [] OTHER -> 0) :
            Return1("mean", k, 0, 0, staz_mean(k, x, Enter(errno, f)))

Variance == CanCall /\ Return1("variance", "", 0, 0, staz_variance(x, Enter(errno, {})))

Deviation ==
    /\ CanCall
    /\ \E k \in DeviationTypes :
         \E f \in Fails(IF k = "D_MAD_MED" THEN 1 ELSE 0) :
            Return1("deviation", k, 0, 0, staz_deviation(k, x, Enter(errno, f)))

Mode == CanCall /\ Return1("mode", "", 0, 0, staz_mode(x, Enter(errno, {})))

Range ==
    /\ CanCall
    /\ \E k \in RangeTypes :
         \E f \in Fails(IF k \in {"R_INTERQUARTILE", "R_PERCENTILE"} THEN 2 ELSE 0) :
            Return1("range", k, 0, 0, staz_range(k, x, Enter(errno, f)))

\* a call on x alone that returns a struct
ReturnStruct(n, r) == Return(n, "", 0, 0, <<>>, r.ret, r.c, r.nums, <<>>)

Boxplot ==
    /\ CanCall
    /\ \E f \in Fails(3) : ReturnStruct("boxplot", staz_boxplot(x, Enter(errno, f)))

\* a call on x and the second sample yin
Return2(n, kind, yin, r) == Return(n, kind, 0, 0, yin, <<r.ret>>, r.c, r.x, r.y)

\* a call on x as both samples
ReturnSame(n, kind, r) == Return(n, kind, 0, 0, <<>>, <<r.ret>>, r.c, r.x, <<>>)

\* a call on x and yin that returns a struct
ReturnStruct2(n, yin, r) == Return(n, "", 0, 0, yin, r.ret, r.c, r.x, r.y)

CovarianceWith(yin) ==
    Return2("covariance", "", yin, staz_covariance(x, yin, Enter(errno, {})))

Covariance == CanCall /\ \E l \in Lines : CovarianceWith(OnLine(x, l))

\* kind "same": staz_correlation(x, x, len); kind "pair": staz_correlation(x, y, len)
CorrelationWith(yin) ==
    Return2("correlation", "pair", yin, staz_correlation(x, yin, FALSE, Enter(errno, {})))

Correlation ==
    /\ CanCall
    /\ \/ ReturnSame("correlation", "same", staz_correlation(x, x, TRUE, Enter(errno, {})))
       \/ \E l \in Lines : CorrelationWith(OnLine(x, l))

LinearRegressionWith(yin) ==
    ReturnStruct2("linear_regression", yin,
                  staz_linear_regression(x, yin, Enter(errno, {})))

LinearRegression == CanCall /\ \E l \in Lines : LinearRegressionWith(OnLine(x, l))

GetErrno ==
    /\ Idle
    /\ Return("geterrno", "", 0, 0, <<>>, <<Num(staz_geterrno(errno))>>,
              Enter(errno, {}), x, <<>>)

StrErrno ==
    /\ Idle
    /\ Return("strerrno", "", 0, 0, <<>>, <<staz_strerrno(errno)>>, Enter(errno, {}), x, <<>>)

Next ==
    \/ Load \/ Resume
    \/ Sum \/ QuadraticSum \/ Prod \/ MinValue \/ MaxValue
    \/ Median \/ Quantile \/ Mean \/ Variance \/ Deviation \/ Mode \/ Range
    \/ Boxplot \/ Covariance \/ Correlation \/ LinearRegression
    \/ GetErrno \/ StrErrno

Spec == Init /\ [][Next]_vars
(***************************************************************************)
(* What the claims speak of, stated without the operators that model the   *)
(* code.                                                                   *)
(***************************************************************************)
\* the last call was a statistic operation
StatOp == op.name \notin {"none", "geterrno", "strerrno"}

\* every scratch-copy allocation of the last call succeeded
Allocated == ctx.denied = 0

HasNaN(vs) == \E i \in 1..Len(vs) : isnan(vs[i])

\* the k-th smallest element of s (k from 1), by counting
OrderStat(s, k) ==
    CHOOSE v \in {s[i] : i \in 1..Len(s)} :
        /\ Cardinality({i \in 1..Len(s) : Lt(s[i], v)}) < k
        /\ k <= Cardinality({i \in 1..Len(s) : ~Lt(v, s[i])})

\* the middle order statistic of a non-empty s
Middle(s) ==
    IF Len(s) % 2 = 1 THEN OrderStat(s, Len(s) \div 2 + 1)
    ELSE Div(Add(OrderStat(s, Len(s) \div 2), OrderStat(s, Len(s) \div 2 + 1)), Num(2))

\* linear interpolation in the sorted s at the continuous rank idx (a rational
\* with 1 <= idx < Len(s)): between the order statistics that bracket it
Interpolated(s, idx) ==
    Add(OrderStat(s, Trunc(idx)),
        Mul(Sub(idx, Num(Trunc(idx))),
            Sub(OrderStat(s, Trunc(idx) + 1), OrderStat(s, Trunc(idx)))))

NonConstant(s) == \E i, j \in 1..Len(s) : s[i] # s[j]

(***************************************************************************)
(* C1: for every non-empty sample, in any initial order, staz_median       *)
(* returns the middle order statistic (odd length: the element of rank     *)
(* floor(n/2) of the ascending order counted from 0; even length: the mean *)
(* of the two middle elements; n = 1: the element) and leaves errno at     *)
(* NO_ERROR.  Checked for the calls whose scratch copy is allocated.       *)
(***************************************************************************)
C1_MedianIsMiddle ==
    (op.name = "median" /\ Len(pre.x) > 0 /\ Allocated) =>
        /\ ret = <<Middle(pre.x)>>
        /\ Len(pre.x) = 1 => ret = <<pre.x[1]>>
        /\ errno = NO_ERROR

\* the median of the unsorted sample [3, 1, 2] is 2
C1_Witness ==
    /\ op.name = "median" /\ Allocated
    /\ pre.x = Values(<<3, 1, 2>>)
    /\ ret = <<Num(2)>>
    /\ errno = NO_ERROR

(***************************************************************************)
(* C2 as claimed: staz_quantile(4, 1, [1,2,3,4], 4) returns 1.5 and        *)
(* staz_quantile(4, 3, [1,2,3,4], 4) returns 3.5.                          *)
(***************************************************************************)
C2_Claimed ==
    (op.name = "quantile" /\ op.d = 4 /\ pre.x = Values(<<1, 2, 3, 4>>) /\ Allocated) =>
        /\ op.p = 1 => ret = <<Rat(3, 2)>>
        /\ op.p = 3 => ret = <<Rat(7, 2)>>

(***************************************************************************)
(* C2 as amended: staz_quantile(4, 1, [1,2,3,4], 4) returns 1.25 and       *)
(* staz_quantile(4, 3, [1,2,3,4], 4) returns 3.75, the values obtained by  *)
(* linear interpolation at the continuous rank index = p*(n+1)/d (1.25 and *)
(* 3.75 for n = 4, d = 4).                                                 *)
(***************************************************************************)
C2_Quartiles ==
    (op.name = "quantile" /\ op.d = 4 /\ pre.x = Values(<<1, 2, 3, 4>>) /\ Allocated) =>
        /\ op.p = 1 => ret = <<Rat(5, 4)>>
        /\ op.p = 3 => ret = <<Rat(15, 4)>>
        /\ op.p \in {1, 3} =>
              /\ ret = <<Interpolated(pre.x, Rat(op.p * (Len(pre.x) + 1), op.d))>>
              /\ errno = NO_ERROR

C2_Witness ==
    /\ op.name = "quantile" /\ op.d = 4 /\ op.p = 3 /\ Allocated
    /\ pre.x = Values(<<1, 2, 3, 4>>)
    /\ ret = <<Rat(15, 4)>>

(***************************************************************************)
(* C3: for every non-empty sample and every division d, staz_quantile      *)
(* called with a position p outside [1, d-1] (p = 0 and every p when       *)
(* d <= 1 included) returns NaN and leaves errno at RANGEOUT_ERROR.        *)
(***************************************************************************)
C3_OutsideIsRangeOut ==
    (op.name = "quantile" /\ Len(pre.x) > 0 /\ (op.p < 1 \/ op.p > op.d - 1)) =>
        /\ ret = <<NAN>>
        /\ errno = RANGEOUT_ERROR

(***************************************************************************)
(* C4: the order-statistic operations never modify the caller's array:     *)
(* after staz_median, staz_quantile, staz_boxplot, staz_range              *)
(* (R_INTERQUARTILE, R_PERCENTILE) or staz_mean (TRIMEAN, MIDHINGE)        *)
(* returns, on success or on failure, every element of the array is where  *)
(* it was and what it was before the call.                                 *)
(***************************************************************************)
OrderStatisticOp ==
    \/ op.name \in {"median", "quantile", "boxplot"}
    \/ op.name = "range" /\ op.kind \in {"R_INTERQUARTILE", "R_PERCENTILE"}
    \/ op.name = "mean" /\ op.kind \in {"TRIMEAN", "MIDHINGE"}

C4_OrderStatisticsKeepArray == OrderStatisticOp => x = pre.x

\* a quartile of an array that is not in ascending order was computed
C4_Witness ==
    /\ op.name = "mean" /\ op.kind = "TRIMEAN" /\ Allocated
    /\ pre.x = Values(<<3, 1, 2>>)
    /\ ~HasNaN(ret)
    /\ x = pre.x

(***************************************************************************)
(* C5: staz_variance and staz_deviation (every kind) only borrow the       *)
(* sample: after the call returns every element of the caller's array has  *)
(* the value it had before the call.                                       *)
(***************************************************************************)
C5_DispersionKeepsArray == op.name \in {"variance", "deviation"} => x = pre.x

(***************************************************************************)
(* C6: for every non-constant sample x, staz_correlation(x, x, len)        *)
(* returns exactly 1 and leaves errno at NO_ERROR.                         *)
(***************************************************************************)
C6_SelfCorrelationIsOne ==
    (op.name = "correlation" /\ op.kind = "same" /\ NonConstant(pre.x)) =>
        /\ ret = <<Num(1)>>
        /\ errno = NO_ERROR

(***************************************************************************)
(* C7: staz_deviation with D_MAD_MED returns the median of the absolute    *)
(* deviations |x_i - median(x)|, for every non-empty sample.  Stated for   *)
(* the calls whose scratch copy is allocated.                              *)
(***************************************************************************)
AbsoluteDeviations(s, centre) == [i \in 1..Len(s) |-> fabs(Sub(s[i], centre))]

C7_MadIsMedianOfDeviations ==
    (op.name = "deviation" /\ op.kind = "D_MAD_MED" /\ Len(pre.x) > 0 /\ Allocated) =>
        ret = <<Middle(AbsoluteDeviations(pre.x, Middle(pre.x)))>>

(***************************************************************************)
(* C8: whenever a public statistic operation returns its failure sentinel  *)
(* (NaN, or a struct with NaN fields) for a sample of finite values, also  *)
(* when a scratch-copy allocation fails in a sub-call, errno read right    *)
(* after the call is not NO_ERROR.                                         *)
(***************************************************************************)
C8_SentinelHasErrorKind == (StatOp /\ HasNaN(ret)) => errno # NO_ERROR

(***************************************************************************)
(* C9: when a sub-operation called by a composed operation (staz_mean      *)
(* TRIMEAN or MIDHINGE, staz_deviation, staz_correlation, staz_range of    *)
(* the quantile kinds) returns NaN, the composed operation returns NaN and *)
(* leaves errno at NAN_ERROR.                                              *)
(***************************************************************************)
ComposedOp ==
    \/ op.name = "mean" /\ op.kind \in {"TRIMEAN", "MIDHINGE"}
    \/ op.name \in {"deviation", "correlation"}
    \/ op.name = "range" /\ op.kind \in {"R_INTERQUARTILE", "R_PERCENTILE"}

C9_SubNaNIsNanError ==
    (ComposedOp /\ ctx.subnan) =>
        /\ ret = <<NAN>>
        /\ errno = NAN_ERROR

(***************************************************************************)
(* C10: errno reflects only the most recent call, whatever it held before: *)
(* after an operation that completes successfully it is NO_ERROR, after an *)
(* operation that fails its input validation it is the kind of that        *)
(* failure; staz_geterrno and staz_strerrno read errno without changing    *)
(* it.                                                                     *)
(***************************************************************************)
\* the kind the input validation of the last call reports, NO_ERROR if it passes
Validation ==
    IF Len(pre.x) = 0 THEN INVALID_PARAMETERS_ERROR
    ELSE IF op.name = "quantile" /\ op.p < 1 THEN INVALID_PARAMETERS_ERROR
    ELSE IF op.name = "quantile" /\ op.d >= 1 /\ op.p > op.d - 1 THEN RANGEOUT_ERROR
    ELSE IF op.name = "mean" /\ op.kind = "EXTREMES" /\ Len(pre.x) < 2
         THEN INVALID_PARAMETERS_ERROR
    ELSE IF op.name \in {"mean", "range"} /\ op.kind = "OTHER" THEN INVALID_PARAMETERS_ERROR
    ELSE IF op.name = "deviation" /\ op.kind \in {"D_AVERAGE", "OTHER"}
         THEN INVALID_PARAMETERS_ERROR
    ELSE NO_ERROR

C10_SlotReflectsLastCall ==
    /\ (StatOp /\ ~HasNaN(ret)) => errno = NO_ERROR
    /\ (StatOp /\ Validation # NO_ERROR) => (errno = Validation /\ HasNaN(ret))
    /\ op.name = "geterrno" => (errno = pre.errno /\ ret = <<Num(pre.errno)>>)
    /\ op.name = "strerrno" => (errno = pre.errno /\ ret = <<staz_strerrno(pre.errno)>>)

\* a call succeeded although the slot held an error kind when it was entered
C10_Witness ==
    /\ StatOp /\ ~HasNaN(ret)
    /\ pre.errno = RANGEOUT_ERROR
    /\ errno = NO_ERROR

(***************************************************************************)
(* C11: for every non-empty sample with at least one element equal to 0,   *)
(* wherever it stands, staz_mean with HARMONICAL returns NaN and leaves    *)
(* errno at ZERO_DIVISION_ERROR: the zero is never skipped and no partial  *)
(* sum of reciprocals is returned.                                         *)
(***************************************************************************)
HasZero(s) == \E i \in 1..Len(s) : IsZero(s[i])

C11_HarmonicOfZeroFails ==
    (op.name = "mean" /\ op.kind = "HARMONICAL" /\ HasZero(pre.x)) =>
        /\ ret = <<NAN>>
        /\ errno = ZERO_DIVISION_ERROR

\* the harmonic mean of [1, 2, 0, 4], the zero after two non-zero elements
C11_Witness ==
    /\ op.name = "mean" /\ op.kind = "HARMONICAL"
    /\ pre.x = Values(<<1, 2, 0, 4>>)
    /\ ret = <<NAN>>
    /\ errno = ZERO_DIVISION_ERROR

(***************************************************************************)
(* C12: for every pair of samples of equal length whose points lie exactly *)
(* on a line y = a * x + b, staz_linear_regression returns slope a and     *)
(* intercept b and leaves errno at NO_ERROR when the x values are not all  *)
(* identical, and returns the all-NaN pair and leaves errno at             *)
(* ZERO_DIVISION_ERROR when they are.  x = [1,2,3], y = [2,4,6] gives      *)
(* slope 2 and intercept 0.                                                *)
(***************************************************************************)
LiesOn(xs, ys, a, b) ==
    /\ Len(ys) = Len(xs)
    /\ \A i \in 1..Len(xs) : ys[i] = Add(Mul(Num(a), xs[i]), Num(b))

Rank(s, d, p) == Trunc(Rat(p * (Len(s) + 1), d))

C13_ClampsToExtremes ==
    (op.name = "quantile" /\ Len(pre.x) > 0 /\ 1 <= op.p /\ op.p <= op.d - 1 /\ Allocated) =>
        /\ Rank(pre.x, op.d, op.p) >= Len(pre.x) => ret = <<OrderStat(pre.x, Len(pre.x))>>
        /\ Rank(pre.x, op.d, op.p) <= 0 => ret = <<OrderStat(pre.x, 1)>>
        /\ ~Lt(ret[1], OrderStat(pre.x, 1))
        /\ ~Lt(OrderStat(pre.x, Len(pre.x)), ret[1])

(***************************************************************************)
(* C14: for every non-empty sample, staz_quantile with division 2 and      *)
(* position 1 returns the value staz_median returns on the same sample.    *)
(* Stated for the calls whose scratch copy is allocated.                   *)
(***************************************************************************)
C14_HalfQuantileIsMedian ==
    (op.name = "quantile" /\ op.d = 2 /\ op.p = 1 /\ Len(pre.x) > 0 /\ Allocated) =>
        ret = <<staz_median(pre.x, Enter(NO_ERROR, {})).ret>>

(***************************************************************************)
(* C15: every scratch copy allocated by staz_median or staz_quantile is    *)
(* freed exactly once before that call returns, on every return path       *)
(* (normal result, upper clamp, lower clamp, allocation failure): after    *)
(* any sequence of public operations no scratch buffer remains allocated,  *)
(* none was freed twice and none was read after it was freed.              *)
(***************************************************************************)
C15_ScratchFreedOnce ==
    /\ ctx.live = {}
    /\ ~ctx.bad

\* a staz_boxplot call in which one of the three allocations failed and the
\* other two copies were made, read and freed
C15_Witness ==
    /\ op.name = "boxplot"
    /\ ctx.k = 3 /\ ctx.denied = 1
    /\ ctx.live = {}
    /\ ~ctx.bad

====
